---- MODULE Spec2Model ----
(***************************************************************************)
(* relmatch: rule-based record matching.                                   *)
(*   registry.py  ComparatorRegistry (name -> comparator catalogue)        *)
(*   models.py    Rule / RuleSet validation and ordering                   *)
(*   engine.py    MatchingEngine: pair scoring, rule scan, match index     *)
(* Strings that the code normalises or orders (comparator names, rule      *)
(* names) are sequences of one-character strings; record identifiers are   *)
(* plain strings.  Floats are exact rationals <<numerator, denominator>>   *)
(* in lowest terms; every value used is dyadic, so the float arithmetic    *)
(* of the code is exact on it.                                             *)
(* Specifications: Spec (RuleSet, then match), SpecPair (RuleSet, then     *)
(* _evaluate_rules_for_pair on one pair, rule by rule), SpecRegistry       *)
(* (register and get on an empty registry), SpecComparators                *)
(* (registry.evaluate of the built-in comparators), SpecWorkers (the outer *)
(* loop of match, one worker per index record, in any interleaving).       *)
(***************************************************************************)
EXTENDS Integers, Sequences, FiniteSets, TLC

VARIABLES
    name_to_comparator,   \* ComparatorRegistry._name_to_comparator
    name_to_description,  \* ComparatorRegistry._name_to_description
    regLog,               \* the register calls made, oldest first
    regOutcome,           \* outcome of the last registry call
    call,                 \* the last registry.evaluate call and what it gave
    rulesInput,           \* the rules handed to RuleSet(...)
    ruleset,              \* RuleSet.rules after validation
    args,                 \* arguments of the current MatchingEngine.match call
    pc,                   \* position of the caller / of match
    idx,                  \* next position of the outer loop of match
    result,               \* the EngineResult under construction
    evalLog,              \* registry.evaluate calls of the current call
    scan,                 \* _evaluate_rules_for_pair: best, the PairScores, the return
    workers               \* the outer loop of match run by one worker per index record

vars == <<name_to_comparator, name_to_description, regLog, regOutcome, call,
          rulesInput, ruleset, args, pc, idx, result, evalLog, scan, workers>>

regVars == <<name_to_comparator, name_to_description, regLog, regOutcome, call>>
engineVars == <<rulesInput, ruleset, args, pc, idx, result, evalLog, scan, workers>>

\* Python values that share a slot with values of another type: None, int, str
PyNone == [t |-> "none", n |-> 0, s |-> ""]
PyInt(n) == [t |-> "int", n |-> n, s |-> ""]
PyStr(s) == [t |-> "str", n |-> 0, s |-> s]

(***************************************************************************)
(* Bounds of the model                                                     *)
(***************************************************************************)
MaxRegCalls == 2     \* register calls in one behaviour
MaxRules == 2        \* rules handed to RuleSet(...)
MaxRecords == 3      \* records of both sides together
MaxTopK == 1         \* largest top_k

(***************************************************************************)
(* Characters and strings                                                  *)
(***************************************************************************)
UpperChars == <<"A","B","C","D","E","F","G","H","I","J","K","L","M",
                "N","O","P","Q","R","S","T","U","V","W","X","Y","Z">>
LowerChars == <<"a","b","c","d","e","f","g","h","i","j","k","l","m",
                "n","o","p","q","r","s","t","u","v","w","x","y","z">>
Whitespace == {" ", "\t", "\n"}

IsIn(seq, c) == \E i \in 1..Len(seq) : seq[i] = c

Letters == 1..Len(UpperChars)
OtherChars == {" ", "\t", "\n", "_"}
Chars == {UpperChars[i] : i \in Letters} \cup {LowerChars[i] : i \in Letters} \cup OtherChars

\* ord(c)
OrdOf ==
    [c \in Chars |->
        IF \E i \in Letters : UpperChars[i] = c
        THEN 64 + (CHOOSE i \in Letters : UpperChars[i] = c)
        ELSE IF \E i \in Letters : LowerChars[i] = c
        THEN 96 + (CHOOSE i \in Letters : LowerChars[i] = c)
        ELSE IF c = "_" THEN 95
        ELSE IF c = " " THEN 32
        ELSE IF c = "\n" THEN 10
        ELSE 9]
Ord(c) == OrdOf[c]

\* str.lower() of one character
LowerOf ==
    [c \in Chars |->
        IF \E i \in Letters : UpperChars[i] = c
        THEN LowerChars[CHOOSE i \in Letters : UpperChars[i] = c]
        ELSE c]
LowerChar(c) == LowerOf[c]

\* str.lower()
Lower(s) == [i \in 1..Len(s) |-> LowerChar(s[i])]

RECURSIVE LStrip(_)
LStrip(s) == IF s # <<>> /\ Head(s) \in Whitespace THEN LStrip(Tail(s)) ELSE s

RECURSIVE RStrip(_)
RStrip(s) ==
    IF s # <<>> /\ s[Len(s)] \in Whitespace THEN RStrip(SubSeq(s, 1, Len(s) - 1)) ELSE s

\* str.strip()
Strip(s) == RStrip(LStrip(s))

\* Python's < on str: lexicographic by code point
RECURSIVE StrLess(_, _)
StrLess(a, b) ==
    IF b = <<>> THEN FALSE
    ELSE IF a = <<>> THEN TRUE
    ELSE IF Ord(Head(a)) # Ord(Head(b)) THEN Ord(Head(a)) < Ord(Head(b))
    ELSE StrLess(Tail(a), Tail(b))

Digits == <<"0","1","2","3","4","5","6","7","8","9">>

\* str(value) of None, of a str and of a one-digit int
Str(v) ==
    IF v.t = "none" THEN "None"
    ELSE IF v.t = "str" THEN v.s
    ELSE Digits[v.n + 1]

\* dict.get(field) and dict.get(field, default)
DictGet(rec, field) == IF field \in DOMAIN rec THEN rec[field] ELSE PyNone
DictGetDefault(rec, field, default) == IF field \in DOMAIN rec THEN rec[field] ELSE default

(***************************************************************************)
(* Rationals                                                               *)
(***************************************************************************)
Abs(x) == IF x < 0 THEN -x ELSE x

RECURSIVE Gcd(_, _)
Gcd(a, b) == IF b = 0 THEN a ELSE Gcd(b, a % b)

Sign(d) == IF d < 0 THEN -1 ELSE 1
Reduce(n, d, g) == <<n \div g, d \div g>>

\* n / d in lowest terms, the denominator positive
Rat(n, d) == Reduce(Sign(d) * n, Sign(d) * d, Gcd(Abs(n), Abs(d)))

Zero == <<0, 1>>
One == <<1, 1>>
Half == <<1, 2>>
RatAdd(a, b) == Rat(a[1] * b[2] + b[1] * a[2], a[2] * b[2])
RatSub(a, b) == Rat(a[1] * b[2] - b[1] * a[2], a[2] * b[2])
RatMul(a, b) == Rat(a[1] * b[1], a[2] * b[2])
RatDiv(a, b) == Rat(a[1] * b[2], a[2] * b[1])
RatLess(a, b) == a[1] * b[2] < b[1] * a[2]
RatGeq(a, b) == ~RatLess(a, b)
RatNeg(a) == <<-a[1], a[2]>>
RatAbs(a) == <<Abs(a[1]), a[2]>>
RatMax(a, b) == IF RatLess(a, b) THEN b ELSE a

(***************************************************************************)
(* registry.py: ComparatorRegistry                                         *)
(***************************************************************************)
\* name.strip().lower()
Normalize(name) == Lower(Strip(name))

\* dict assignment d[k] = v
DictSet(d, k, v) == [x \in (DOMAIN d) \cup {k} |-> IF x = k THEN v ELSE d[x]]

EmptyDict == [x \in {} |-> ""]

\* register keyed by name.lower(), the name not stripped
RegisterResultUnstripped(cmps, descs, name, func, description) ==
    IF Normalize(name) = <<>>
    THEN [raised |-> "ValueError", cmps |-> cmps, descs |-> descs]
    ELSE [raised |-> "",
          cmps |-> DictSet(cmps, Lower(name), func),
          descs |-> IF description # PyNone /\ description # PyStr("")
                    THEN DictSet(descs, Lower(name), description.s)
                    ELSE descs]

\* register: the catalogue after the call, or the ValueError it raises
RegisterResult(cmps, descs, name, func, description) ==
    LET normalized == Normalize(name) IN
    IF normalized = <<>>
    THEN [raised |-> "ValueError", cmps |-> cmps, descs |-> descs]
    ELSE [raised |-> "",
          cmps |-> DictSet(cmps, normalized, func),
          descs |-> IF description # PyNone /\ description # PyStr("")
                    THEN DictSet(descs, normalized, description.s)
                    ELSE descs]

\* get: the comparator, or the KeyError it raises
Get(cmps, name) ==
    LET normalized == Normalize(name) IN
    IF normalized \in DOMAIN cmps
    THEN [raised |-> "", func |-> cmps[normalized]]
    ELSE [raised |-> "KeyError", func |-> ""]

\* names(): the registered names (sorted in the code; a set here)
Names(cmps) == DOMAIN cmps

\* describe
Describe(descs, name) ==
    IF Normalize(name) \in DOMAIN descs THEN PyStr(descs[Normalize(name)]) ELSE PyNone

(***************************************************************************)
(* comparators.py: the comparators the rules of this model use             *)
(***************************************************************************)
\* the str values that float() parses, among the strings used: one digit
DigitStrings == {Digits[i] : i \in DOMAIN Digits}
DigitOf(s) == CHOOSE n \in 0..9 : Digits[n + 1] = s

\* _safe_float: <<FALSE, _>> for None, which it returns for None and for a value
\* that float() rejects
SafeFloat(value) ==
    IF value.t = "int" THEN <<TRUE, Rat(value.n, 1)>>
    ELSE IF value.t = "str" /\ value.s \in DigitStrings THEN <<TRUE, Rat(DigitOf(value.s), 1)>>
    ELSE <<FALSE, Zero>>

\* what a comparator call gives: the score, or the exception it raises
Score(score) == [raised |-> "", score |-> score]
Raises(exception) == [raised |-> exception, score |-> Zero]

\* cmp_exact
CmpExact(left, right, params) ==
    IF left = right /\ left # PyNone THEN Score(One) ELSE Score(Zero)

\* cmp_numeric_distance, lines 144-148: lf, rf are the parsed values; the division
\* of line 147 raises ZeroDivisionError when max_distance is 0.0
NumericDistance(lf, rf, max_distance) ==
    IF ~lf[1] \/ ~rf[1] THEN Score(Zero)
    ELSE IF max_distance = Zero THEN Raises("ZeroDivisionError")
    ELSE Score(RatMax(Zero, RatSub(One, RatDiv(RatAbs(RatSub(lf[2], rf[2])), max_distance))))

\* cmp_numeric_distance; max_distance is a number, 1.0 when the mapping has none
CmpNumericDistance(left, right, params) ==
    NumericDistance(SafeFloat(left), SafeFloat(right),
                    DictGetDefault(params, "max_distance", One))

ExactName == <<"e","x","a","c","t">>
NumericDistanceName ==
    <<"n","u","m","e","r","i","c","_","d","i","s","t","a","n","c","e">>

\* comparator(left_value, right_value, context, params)
Apply(func, left, right, params) ==
    IF func = "cmp_exact" THEN CmpExact(left, right, params)
    ELSE CmpNumericDistance(left, right, params)

\* register_default_comparators, for the comparators above
DefaultRegistry ==
    RegisterResult(
        RegisterResult(EmptyDict, EmptyDict, ExactName, "cmp_exact",
                       PyStr("Exact equality comparison (case sensitive)")).cmps,
        EmptyDict, NumericDistanceName, "cmp_numeric_distance",
        PyStr("Numeric distance scaled to 0..1 by max_distance")).cmps

(***************************************************************************)
(* models.py: FieldComparatorConfig, Rule, RuleSet                         *)
(***************************************************************************)
NoParams == [x \in {} |-> Zero]

RECURSIVE SumWeights(_)
SumWeights(fields) ==
    IF fields = <<>> THEN Zero ELSE RatAdd(Head(fields).weight, SumWeights(Tail(fields)))

\* FieldComparatorConfig: weight >= 0, threshold None or in [0, 1]
FieldValid(fc) ==
    /\ RatGeq(fc.weight, Zero)
    /\ fc.has_threshold => (RatGeq(fc.threshold, Zero) /\ RatGeq(One, fc.threshold))

\* Rule: match_threshold in [0, 1], _validate_fields_non_empty
RuleValid(r) ==
    /\ RatGeq(r.match_threshold, Zero) /\ RatGeq(One, r.match_threshold)
    /\ r.fields # <<>>
    /\ \A i \in 1..Len(r.fields) : FieldValid(r.fields[i])
    /\ RatLess(Zero, SumWeights(r.fields))

\* the sort key r.priority alone
RuleKeyLessByPriority(a, b) == a.priority < b.priority

\* the sort key (r.priority, r.name): tuple comparison
RuleKeyLess(a, b) ==
    \/ a.priority < b.priority
    \/ a.priority = b.priority /\ StrLess(a.name, b.name)

\* sorted(v, key=...): stable; x goes before the first element whose key is greater
RECURSIVE InsertRule(_, _)
InsertRule(sorted, x) ==
    IF sorted = <<>> THEN <<x>>
    ELSE IF RuleKeyLess(x, Head(sorted)) THEN <<x>> \o sorted
    ELSE <<Head(sorted)>> \o InsertRule(Tail(sorted), x)

RECURSIVE SortRules(_)
SortRules(v) ==
    IF v = <<>> THEN <<>>
    ELSE InsertRule(SortRules(SubSeq(v, 1, Len(v) - 1)), v[Len(v)])

\* RuleSet._validate_rules_non_empty
ValidateRules(v) ==
    IF v = <<>> THEN [raised |-> "ValueError", rules |-> <<>>]
    ELSE [raised |-> "", rules |-> SortRules(v)]

(***************************************************************************)
(* engine.py: MatchingEngine                                               *)
(***************************************************************************)
\* the accumulators of _score_pair before its loop (lines 24-27)
NoFieldScores ==
    [raised |-> "", calls |-> 0, weighted_sum |-> Zero, all_must_pass |-> TRUE,
     field_scores |-> <<>>]

\* FieldScored without lines 39-40
FieldScoredNoMust(acc, fc, score, passed) ==
    [raised |-> "", calls |-> acc.calls + 1,
     weighted_sum |-> RatAdd(acc.weighted_sum, RatMul(score, fc.weight)),
     all_must_pass |-> acc.all_must_pass,
     field_scores |-> Append(acc.field_scores,
         [left_field |-> fc.left_field, right_field |-> fc.right_field,
          comparator |-> fc.comparator, weight |-> fc.weight,
          score |-> score, passed |-> passed])]

\* _score_pair, lines 38-52: binding fc scored
FieldScored(acc, fc, score, passed) ==
    [raised |-> "", calls |-> acc.calls + 1,
     weighted_sum |-> RatAdd(acc.weighted_sum, RatMul(score, fc.weight)),
     all_must_pass |-> IF fc.must /\ ~passed THEN FALSE ELSE acc.all_must_pass,
     field_scores |-> Append(acc.field_scores,
         [left_field |-> fc.left_field, right_field |-> fc.right_field,
          comparator |-> fc.comparator, weight |-> fc.weight,
          score |-> score, passed |-> passed])]

\* passed = score >= (fc.threshold if fc.threshold is not None else 0.0)
Passed(fc, score) == RatGeq(score, IF fc.has_threshold THEN fc.threshold ELSE Zero)

FieldCompared(acc, fc, score) == FieldScored(acc, fc, score, Passed(fc, score))

\* the comparator has answered: its exception leaves _score_pair, its score goes on
Answered(acc, fc, out) ==
    IF out.raised # "" THEN [acc EXCEPT !.raised = out.raised, !.calls = @ + 1]
    ELSE FieldCompared(acc, fc, out.score)

\* registry.evaluate: get, then the comparator; got is the outcome of get
Evaluated(acc, fc, left_value, right_value, got) ==
    IF got.raised # "" THEN [acc EXCEPT !.raised = got.raised, !.calls = @ + 1]
    ELSE Answered(acc, fc, Apply(got.func, left_value, right_value, fc.params))

\* one pass of the loop of _score_pair (lines 29-52)
FieldStep(acc, left, right, fc, cmps) ==
    Evaluated(acc, fc, DictGet(left, fc.left_field), DictGet(right, fc.right_field),
              Get(cmps, fc.comparator))

\* the loop of _score_pair over rule.fields, from binding i on; a KeyError ends it
RECURSIVE ScoreFields(_, _, _, _, _, _)
ScoreFields(left, right, rule, cmps, i, acc) ==
    IF i > Len(rule.fields) \/ acc.raised # "" THEN acc
    ELSE ScoreFields(left, right, rule, cmps, i + 1,
                     FieldStep(acc, left, right, rule.fields[i], cmps))

\* _score_pair, lines 54-63
MakePairScore(left, right, rule, total_weight, loop, total_score) ==
    [raised |-> loop.raised,
     calls |-> loop.calls,
     ps |-> [left_id |-> Str(DictGetDefault(left, "id", PyStr("<no-id>"))),
             right_id |-> Str(DictGetDefault(right, "id", PyStr("<no-id>"))),
             rule_name |-> rule.name,
             total_score |-> total_score,
             matched |-> loop.all_must_pass /\ RatGeq(total_score, rule.match_threshold),
             field_scores |-> loop.field_scores,
             weight_sum |-> total_weight]]

\* _score_pair, line 53
Aggregate(left, right, rule, total_weight, loop) ==
    MakePairScore(left, right, rule, total_weight, loop,
        IF RatLess(Zero, total_weight) THEN RatDiv(loop.weighted_sum, total_weight) ELSE Zero)

\* _score_pair: the PairScore, or the KeyError of the registry; calls counts the
\* registry.evaluate calls made
ScorePair(left, right, rule, cmps) ==
    Aggregate(left, right, rule, SumWeights(rule.fields),
              ScoreFields(left, right, rule, cmps, 1, NoFieldScores))

\* registry.evaluate calls of one _score_pair call: <<rule position, binding position>>
CallsOf(k, n) == [i \in 1..n |-> <<k, i>>]

\* best = pair_score when best is None or pair_score.total_score > best.total_score
Better(best, pair_score) ==
    IF best = <<>> \/ RatLess(best[1].total_score, pair_score.total_score)
    THEN <<pair_score>> ELSE best

\* RuleScored with the early return gated by the rule's stop_on_first_rule_match
RuleScoredIfFlag(rules, k, best, scored) ==
    IF scored.raised # ""
    THEN [raised |-> scored.raised, returned |-> <<>>, best |-> best]
    ELSE IF scored.ps.matched /\ rules[k].stop_on_first_rule_match
    THEN [raised |-> "", returned |-> <<scored.ps>>, best |-> best]
    ELSE [raised |-> "", returned |-> <<>>, best |-> Better(best, scored.ps)]

\* _evaluate_rules_for_pair, lines 71-76: rule k scored; returned is <<ps>> when
\* the loop returns ps, and <<>> when it goes on; best is <<>> for None
RuleScored(rules, k, best, scored) ==
    IF scored.raised # ""
    THEN [raised |-> scored.raised, returned |-> <<>>, best |-> best]
    ELSE IF scored.ps.matched
    THEN [raised |-> "", returned |-> <<scored.ps>>, best |-> best]
    ELSE [raised |-> "", returned |-> <<>>, best |-> Better(best, scored.ps)]

\* the loop of _evaluate_rules_for_pair, from rule k on
RECURSIVE EvaluateFrom(_, _, _, _, _, _, _)
RuleContinue(left, right, rules, cmps, k, calls, step) ==
    IF step.raised # "" THEN [raised |-> step.raised, ps |-> <<>>, calls |-> calls]
    ELSE IF step.returned # <<>>
    THEN [raised |-> "", ps |-> step.returned[1], calls |-> calls]
    ELSE EvaluateFrom(left, right, rules, cmps, k + 1, step.best, calls)

\* _evaluate_rules_for_pair, line 70
RuleScoredAt(left, right, rules, cmps, k, best, calls, scored) ==
    RuleContinue(left, right, rules, cmps, k, calls \o CallsOf(k, scored.calls),
                 RuleScored(rules, k, best, scored))

EvaluateFrom(left, right, rules, cmps, k, best, calls) ==
    IF k > Len(rules)
    THEN [raised |-> "", ps |-> best[1], calls |-> calls]
    ELSE RuleScoredAt(left, right, rules, cmps, k, best, calls,
                      ScorePair(left, right, rules[k], cmps))

\* _evaluate_rules_for_pair (rules is never empty: RuleSet rejects an empty list)
EvaluateRulesForPair(left, right, rules, cmps) ==
    EvaluateFrom(left, right, rules, cmps, 1, <<>>, <<>>)

\* str(r.get(id_field))
IdOf(rec, id_field) == Str(DictGet(rec, id_field))

\* the keys of {str(r.get(id_field)): r for r in records}, in insertion order
RECURSIVE DictKeys(_, _)
DictKeys(records, id_field) ==
    IF records = <<>> THEN <<>>
    ELSE LET before == DictKeys(SubSeq(records, 1, Len(records) - 1), id_field)
             key == IdOf(records[Len(records)], id_field)
         IN  IF IsIn(before, key) THEN before ELSE Append(before, key)

\* [s for s in scores if s.matched]
RECURSIVE OnlyMatches(_)
OnlyMatches(scores) ==
    IF scores = <<>> THEN <<>>
    ELSE IF Head(scores).matched THEN <<Head(scores)>> \o OnlyMatches(Tail(scores))
    ELSE OnlyMatches(Tail(scores))

\* [x for x in keys if x not in matched_ids]
RECURSIVE NotIn(_, _)
NotIn(keys, matched_ids) ==
    IF keys = <<>> THEN <<>>
    ELSE IF Head(keys) \notin matched_ids THEN <<Head(keys)>> \o NotIn(Tail(keys), matched_ids)
    ELSE NotIn(Tail(keys), matched_ids)

\* the sort key (s.total_score, s.rule_name): ascending by score
MatchKeyLessAscending(a, b) ==
    \/ RatLess(a.total_score, b.total_score)
    \/ a.total_score = b.total_score /\ StrLess(a.rule_name, b.rule_name)

\* the sort key (-s.total_score, s.rule_name): tuple comparison
MatchKeyLess(a, b) ==
    \/ RatLess(b.total_score, a.total_score)
    \/ a.total_score = b.total_score /\ StrLess(a.rule_name, b.rule_name)

\* matches.sort(key=...): stable
RECURSIVE InsertMatch(_, _)
InsertMatch(sorted, x) ==
    IF sorted = <<>> THEN <<x>>
    ELSE IF MatchKeyLess(x, Head(sorted)) THEN <<x>> \o sorted
    ELSE <<Head(sorted)>> \o InsertMatch(Tail(sorted), x)

RECURSIVE SortMatches(_)
SortMatches(m) ==
    IF m = <<>> THEN <<>>
    ELSE InsertMatch(SortMatches(SubSeq(m, 1, Len(m) - 1)), m[Len(m)])

\* matches[:top_k] when top_k is not None
TopK(matches, top_k) ==
    IF top_k = PyNone THEN matches
    ELSE IF top_k.n >= 0
    THEN SubSeq(matches, 1, IF top_k.n < Len(matches) THEN top_k.n ELSE Len(matches))
    ELSE SubSeq(matches, 1, IF Len(matches) + top_k.n > 0 THEN Len(matches) + top_k.n ELSE 0)

IndexSide(cardinality) == IF cardinality = "one_to_many" THEN "left" ELSE "right"

IndexList(a) == IF IndexSide(a.cardinality) = "left" THEN a.left_records ELSE a.right_records
OtherList(a) == IF IndexSide(a.cardinality) = "left" THEN a.right_records ELSE a.left_records

\* EngineResult(cardinality=cardinality, indexed_by=index_side)
NewResult(cardinality) ==
    [cardinality |-> cardinality, indexed_by |-> IndexSide(cardinality),
     matches_index |-> EmptyDict, unmatched_left_ids |-> <<>>, unmatched_right_ids |-> <<>>]

\* the registry.evaluate calls of one pair, with the pair's positions
PairCalls(lpos, rpos, calls) ==
    [n \in 1..Len(calls) |->
        [left |-> lpos, right |-> rpos, rule |-> calls[n][1], field |-> calls[n][2]]]

\* the accumulators of the inner loop: scores, and the registry.evaluate calls so far
PairEvaluated(inner, lpos, rpos, ev) ==
    [raised |-> ev.raised,
     scores |-> IF ev.raised # "" THEN inner.scores ELSE Append(inner.scores, ev.ps),
     calls |-> inner.calls \o PairCalls(lpos, rpos, ev.calls)]

\* scores.append(self._evaluate_rules_for_pair(left, right, rules))
PairStep(inner, a, rules, cmps, lpos, rpos) ==
    PairEvaluated(inner, lpos, rpos,
        EvaluateRulesForPair(a.left_records[lpos], a.right_records[rpos], rules, cmps))

\* the inner loop: index record i against the other side from position j on
RECURSIVE ScoreAll(_, _, _, _, _, _)
ScoreAll(a, rules, cmps, i, j, inner) ==
    IF j > Len(OtherList(a)) \/ inner.raised # "" THEN inner
    ELSE ScoreAll(a, rules, cmps, i, j + 1,
             IF IndexSide(a.cardinality) = "left"
             THEN PairStep(inner, a, rules, cmps, i, j)
             ELSE PairStep(inner, a, rules, cmps, j, i))

NoScores == [raised |-> "", scores |-> <<>>, calls |-> <<>>]

\* left_id / right_id of index record i
IndexId(a, i) ==
    IF IndexSide(a.cardinality) = "left" THEN IdOf(a.left_records[i], a.left_id_field)
    ELSE IdOf(a.right_records[i], a.right_id_field)

\* StoreMatches without the "continue" of lines 115 and 133
StoreMatchesNoContinue(res, a, index_id, inner, matches) ==
    IF inner.raised # ""
    THEN [raised |-> inner.raised, result |-> res, calls |-> inner.calls]
    ELSE [raised |-> "", calls |-> inner.calls,
          result |-> [res EXCEPT
              !.unmatched_left_ids =
                  IF matches = <<>> /\ IndexSide(a.cardinality) = "left"
                  THEN Append(@, index_id) ELSE @,
              !.unmatched_right_ids =
                  IF matches = <<>> /\ IndexSide(a.cardinality) = "right"
                  THEN Append(@, index_id) ELSE @,
              !.matches_index = DictSet(@, index_id, TopK(SortMatches(matches), a.top_k))]]

\* {s.right_id for lst in matches_index.values() for s in lst}, and the left one
MatchedRightIds(mi) == UNION {{mi[k][n].right_id : n \in DOMAIN mi[k]} : k \in DOMAIN mi}
MatchedLeftIds(mi) == UNION {{mi[k][n].left_id : n \in DOMAIN mi[k]} : k \in DOMAIN mi}

\* the matches whose other-side id no earlier index record has stored
RECURSIVE Unclaimed(_, _, _)
Unclaimed(matches, mi, side) ==
    IF matches = <<>> THEN <<>>
    ELSE IF (IF side = "left" THEN Head(matches).right_id \in MatchedRightIds(mi)
             ELSE Head(matches).left_id \in MatchedLeftIds(mi))
    THEN Unclaimed(Tail(matches), mi, side)
    ELSE <<Head(matches)>> \o Unclaimed(Tail(matches), mi, side)

\* StoreMatches keeping, for each index record, only the matches that no earlier
\* index record has stored
StoreMatchesUnclaimed(res, a, index_id, inner, matches) ==
    IF inner.raised # ""
    THEN [raised |-> inner.raised, result |-> res, calls |-> inner.calls]
    ELSE IF Unclaimed(matches, res.matches_index, IndexSide(a.cardinality)) = <<>>
    THEN [raised |-> "", calls |-> inner.calls,
          result |-> IF IndexSide(a.cardinality) = "left"
              THEN [res EXCEPT !.unmatched_left_ids = Append(@, index_id)]
              ELSE [res EXCEPT !.unmatched_right_ids = Append(@, index_id)]]
    ELSE [raised |-> "", calls |-> inner.calls,
          result |-> [res EXCEPT !.matches_index =
                        DictSet(@, index_id,
                            TopK(SortMatches(Unclaimed(matches, res.matches_index,
                                                       IndexSide(a.cardinality))),
                                 a.top_k))]]

\* the outer loop after the inner one: lines 112-120 and 130-137
StoreMatches(res, a, index_id, inner, matches) ==
    IF inner.raised # ""
    THEN [raised |-> inner.raised, result |-> res, calls |-> inner.calls]
    ELSE IF matches = <<>>
    THEN [raised |-> "", calls |-> inner.calls,
          result |-> IF IndexSide(a.cardinality) = "left"
              THEN [res EXCEPT !.unmatched_left_ids = Append(@, index_id)]
              ELSE [res EXCEPT !.unmatched_right_ids = Append(@, index_id)]]
    ELSE [raised |-> "", calls |-> inner.calls,
          result |-> [res EXCEPT !.matches_index =
                        DictSet(@, index_id, TopK(SortMatches(matches), a.top_k))]]

Scored(res, a, index_id, inner) ==
    StoreMatches(res, a, index_id, inner, OnlyMatches(inner.scores))

\* one pass of the outer loop of match, for index record i
ProcessIndexRecord(res, a, rules, cmps, i) ==
    Scored(res, a, IndexId(a, i), ScoreAll(a, rules, cmps, i, 1, NoScores))

\* after the outer loop: the unmatched identifiers of the other side
FinishMatch(res, a) ==
    IF IndexSide(a.cardinality) = "left"
    THEN [res EXCEPT !.unmatched_right_ids =
             NotIn(DictKeys(a.right_records, a.right_id_field),
                   MatchedRightIds(res.matches_index))]
    ELSE [res EXCEPT !.unmatched_left_ids =
             NotIn(DictKeys(a.left_records, a.left_id_field),
                   MatchedLeftIds(res.matches_index))]

\* match from outer position i to its end: the EngineResult, or the KeyError
RECURSIVE MatchFrom(_, _, _, _, _)
MatchStep(a, rules, cmps, i, step) ==
    IF step.raised # "" THEN [raised |-> step.raised, result |-> step.result]
    ELSE MatchFrom(step.result, a, rules, cmps, i + 1)

MatchFrom(res, a, rules, cmps, i) ==
    IF i > Len(IndexList(a)) THEN [raised |-> "", result |-> FinishMatch(res, a)]
    ELSE MatchStep(a, rules, cmps, i, ProcessIndexRecord(res, a, rules, cmps, i))

\* MatchingEngine.match as a function of its arguments
Match(a, rules, cmps) == MatchFrom(NewResult(a.cardinality), a, rules, cmps, 1)

(***************************************************************************)
(* Inputs                                                                  *)
(***************************************************************************)
\* the sequences of at most n distinct elements of S
SeqsUpTo(S, n) ==
    {s \in UNION {[1..k -> S] : k \in 0..n} :
        \A i, j \in 1..Len(s) : i # j => s[i] # s[j]}

Binding(cmp, weight, params, must, has_threshold, threshold) ==
    [left_field |-> "v", right_field |-> "v", comparator |-> cmp, weight |-> weight,
     params |-> params, must |-> must, has_threshold |-> has_threshold,
     threshold |-> threshold]

MaxDistance(d) == [x \in {"max_distance"} |-> d]

RuleNear ==
    [name |-> <<"b">>, priority |-> 1, match_threshold |-> Half,
     stop_on_first_rule_match |-> FALSE,
     fields |-> <<Binding(NumericDistanceName, One, MaxDistance(Rat(2, 1)), FALSE, FALSE, Zero)>>]
RuleFar ==
    [name |-> <<"a">>, priority |-> 2, match_threshold |-> Half,
     stop_on_first_rule_match |-> TRUE,
     fields |-> <<Binding(<<" ">> \o NumericDistanceName, One, MaxDistance(Rat(4, 1)),
                          FALSE, TRUE, Rat(3, 4))>>]
RuleMust ==
    [name |-> <<"a">>, priority |-> 2, match_threshold |-> Rat(1, 4),
     stop_on_first_rule_match |-> FALSE,
     fields |-> <<Binding(<<"E">> \o Tail(ExactName), One, NoParams, FALSE, FALSE, Zero),
                  Binding(NumericDistanceName, Rat(3, 1), MaxDistance(Rat(2, 1)),
                          TRUE, TRUE, One)>>]
RuleUnregistered ==
    [name |-> <<"B">>, priority |-> 2, match_threshold |-> Half,
     stop_on_first_rule_match |-> TRUE,
     fields |-> <<Binding(<<"s","o","u","n","d","e","x">>, One, NoParams, FALSE, FALSE, Zero)>>]

\* rules that pass the validators of FieldComparatorConfig and Rule
RuleCatalogue ==
    {r \in {RuleNear, RuleFar, RuleMust, RuleUnregistered} : RuleValid(r)}

Rec(id, key, v) == [x \in {"id", "key", "v"} |->
                      IF x = "id" THEN PyStr(id) ELSE IF x = "key" THEN PyStr(key) ELSE PyInt(v)]
RecNoId(key, v) == [x \in {"key", "v"} |-> IF x = "key" THEN PyStr(key) ELSE PyInt(v)]

\* identifiers under "id": distinct, one missing; under "key": one shared by two records
LeftCatalogue == {Rec("L1", "K1", 1), Rec("L2", "K1", 3), RecNoId("K3", 2)}
RightCatalogue == {Rec("R1", "K1", 2), Rec("R2", "K1", 3), RecNoId("K3", 1)}

IdFields == {"id", "key"}
TopKValues == {PyNone} \cup {PyInt(k) : k \in -1..MaxTopK}

Cardinalities == {"one_to_many", "many_to_one"}

\* _evaluate_rules_for_pair before its loop: best = None, nothing scored or returned
NoScan == [best |-> <<>>, scored |-> <<>>, returned |-> <<>>]

\* no worker yet
NoWorkers == [phase |-> <<>>, inner |-> <<>>, order |-> <<>>]

\* no registry.evaluate call yet
NoCall ==
    [op |-> "", name |-> <<>>, left |-> PyNone, right |-> PyNone, params |-> NoParams,
     raised |-> "", score |-> Zero]

NoArgs ==
    [left_records |-> <<>>, right_records |-> <<>>, cardinality |-> "one_to_many",
     left_id_field |-> "id", right_id_field |-> "id", top_k |-> PyNone]

(***************************************************************************)
(* The engine: RuleSet(rules=...), then MatchingEngine().match(...)        *)
(***************************************************************************)
Init ==
    /\ name_to_comparator = DefaultRegistry
    /\ name_to_description = EmptyDict
    /\ regLog = <<>>
    /\ regOutcome = [op |-> "", name |-> <<>>, raised |-> "", func |-> ""]
    /\ call = NoCall
    /\ rulesInput \in SeqsUpTo(RuleCatalogue, MaxRules)
    /\ ruleset = <<>>
    /\ args = NoArgs
    /\ pc = "new"
    /\ idx = 0
    /\ result = NewResult("one_to_many")
    /\ evalLog = <<>>
    /\ scan = NoScan
    /\ workers = NoWorkers

\* RuleSet(rules=rulesInput)
ConstructRuleSet ==
    /\ pc = "new"
    /\ ruleset' = ValidateRules(rulesInput).rules
    /\ pc' = IF ValidateRules(rulesInput).raised # "" THEN "rejected" ELSE "ready"
    /\ UNCHANGED <<regVars, workers, rulesInput, args, idx, result, evalLog, scan>>

\* match, lines 92-102: the call and its set-up
MatchBegin ==
    /\ pc = "ready"
    /\ \E l \in SeqsUpTo(LeftCatalogue, MaxRecords) :
       \E r \in SeqsUpTo(RightCatalogue, MaxRecords - Len(l)) :
       \E c \in Cardinalities, f \in IdFields, k \in TopKValues :
        /\ args' = [left_records |-> l, right_records |-> r, cardinality |-> c,
                    left_id_field |-> f, right_id_field |-> f, top_k |-> k]
        /\ result' = NewResult(c)
    /\ idx' = 1
    /\ evalLog' = <<>>
    /\ pc' = "loop"
    /\ UNCHANGED <<regVars, workers, rulesInput, ruleset, scan>>

\* match, lines 106-120 and 125-137: one index-side record
MatchIterate ==
    /\ pc = "loop"
    /\ idx <= Len(IndexList(args))
    /\ \E step \in {ProcessIndexRecord(result, args, ruleset, name_to_comparator, idx)} :
        /\ evalLog' = evalLog \o step.calls
        /\ result' = step.result
        /\ pc' = IF step.raised # "" THEN "raised" ELSE "loop"
        /\ idx' = IF step.raised # "" THEN idx ELSE idx + 1
    /\ UNCHANGED <<regVars, workers, rulesInput, ruleset, args, scan>>

\* match, lines 122-123 and 138-141: the other side's unmatched ids, and the return
MatchFinish ==
    /\ pc = "loop"
    /\ idx > Len(IndexList(args))
    /\ result' = FinishMatch(result, args)
    /\ pc' = "done"
    /\ UNCHANGED <<regVars, workers, rulesInput, ruleset, args, idx, evalLog, scan>>

Next == ConstructRuleSet \/ MatchBegin \/ MatchIterate \/ MatchFinish

Spec == Init /\ [][Next]_vars

(***************************************************************************)
(* One pair: RuleSet(rules=...), then _evaluate_rules_for_pair(left, right) *)
(***************************************************************************)
\* the call: one left and one right record, the loop at its first rule
PairBegin ==
    /\ pc = "ready"
    /\ \E l \in LeftCatalogue, r \in RightCatalogue :
        args' = [NoArgs EXCEPT !.left_records = <<l>>, !.right_records = <<r>>]
    /\ idx' = 1
    /\ evalLog' = <<>>
    /\ scan' = NoScan
    /\ pc' = "rules"
    /\ UNCHANGED <<regVars, workers, rulesInput, ruleset, result>>

\* lines 69-76: one pass of the loop, rule idx scored by _score_pair
EvaluateRule ==
    /\ pc = "rules"
    /\ idx <= Len(ruleset)
    /\ \E scored \in {ScorePair(args.left_records[1], args.right_records[1], ruleset[idx],
                                name_to_comparator)} :
       \E step \in {RuleScored(ruleset, idx, scan.best, scored)} :
        /\ evalLog' = evalLog \o PairCalls(1, 1, CallsOf(idx, scored.calls))
        /\ scan' = [best |-> step.best,
                    scored |-> IF step.raised # "" THEN scan.scored
                               ELSE Append(scan.scored, scored.ps),
                    returned |-> step.returned]
        /\ pc' = IF step.raised # "" THEN "raised"
                 ELSE IF step.returned # <<>> THEN "returned" ELSE "rules"
        /\ idx' = IF step.raised # "" \/ step.returned # <<>> THEN idx ELSE idx + 1
    /\ UNCHANGED <<regVars, workers, rulesInput, ruleset, args, result>>

\* lines 77-78: no rule matched, the best PairScore is returned
EvaluateReturn ==
    /\ pc = "rules"
    /\ idx > Len(ruleset)
    /\ scan' = [scan EXCEPT !.returned = scan.best]
    /\ pc' = "returned"
    /\ UNCHANGED <<regVars, workers, rulesInput, ruleset, args, idx, result, evalLog>>

NextPair == ConstructRuleSet \/ PairBegin \/ EvaluateRule \/ EvaluateReturn

SpecPair == Init /\ [][NextPair]_vars

(***************************************************************************)
(* The registry on its own: ComparatorRegistry(), then register and get    *)
(***************************************************************************)
RegistryNames == {<<>>, <<" ">>, <<"a">>, <<" ", "A">>, <<"b", "\t">>, <<"B">>}
RegistryFuncs == {"f1", "f2"}
RegistryDescriptions == {PyNone, PyStr("d")}

InitRegistry ==
    /\ name_to_comparator = EmptyDict
    /\ name_to_description = EmptyDict
    /\ regLog = <<>>
    /\ regOutcome = [op |-> "", name |-> <<>>, raised |-> "", func |-> ""]
    /\ call = NoCall
    /\ rulesInput = <<>>
    /\ ruleset = <<>>
    /\ args = NoArgs
    /\ pc = "registry"
    /\ idx = 0
    /\ result = NewResult("one_to_many")
    /\ evalLog = <<>>
    /\ scan = NoScan
    /\ workers = NoWorkers

\* registry.register(name, func, description)
Register ==
    /\ pc = "registry"
    /\ Len(regLog) < MaxRegCalls
    /\ \E name \in RegistryNames, func \in RegistryFuncs, description \in RegistryDescriptions :
        \E r \in {RegisterResult(name_to_comparator, name_to_description, name, func, description)} :
            /\ name_to_comparator' = r.cmps
            /\ name_to_description' = r.descs
            /\ regLog' = Append(regLog, [name |-> name, func |-> func, raised |-> r.raised])
            /\ regOutcome' = [op |-> "register", name |-> name, raised |-> r.raised, func |-> ""]
    /\ UNCHANGED <<call, engineVars>>

\* registry.get(name)
GetComparator ==
    /\ pc = "registry"
    /\ \E name \in RegistryNames :
        \E g \in {Get(name_to_comparator, name)} :
            regOutcome' = [op |-> "get", name |-> name, raised |-> g.raised, func |-> g.func]
    /\ UNCHANGED <<name_to_comparator, name_to_description, regLog, call, engineVars>>

NextRegistry == Register \/ GetComparator

SpecRegistry == InitRegistry /\ [][NextRegistry]_vars

(***************************************************************************)
(* The outer loop of match, one worker per index-side record: a worker     *)
(* scores its record against the other side (lines 108-110, 127-129),      *)
(* then stores its matches or its unmatched id (lines 112-120, 130-137);    *)
(* the workers run in any order and interleave; lines 122-123 and 138-139  *)
(* run when every worker has stored.                                       *)
(***************************************************************************)
WorkerTopK == {PyNone, PyInt(MaxTopK)}

\* match, lines 92-102, and one idle worker per index-side record
WorkersBegin ==
    /\ pc = "ready"
    /\ \E l \in SeqsUpTo(LeftCatalogue, MaxRecords) :
       \E r \in SeqsUpTo(RightCatalogue, MaxRecords - Len(l)) :
       \E c \in Cardinalities, f \in IdFields, k \in WorkerTopK :
        /\ args' = [left_records |-> l, right_records |-> r, cardinality |-> c,
                    left_id_field |-> f, right_id_field |-> f, top_k |-> k]
        /\ result' = NewResult(c)
        /\ workers' = [phase |-> [i \in 1..Len(IF c = "one_to_many" THEN l ELSE r) |-> "idle"],
                       inner |-> [i \in 1..Len(IF c = "one_to_many" THEN l ELSE r) |-> NoScores],
                       order |-> <<>>]
    /\ pc' = "workers"
    /\ UNCHANGED <<regVars, rulesInput, ruleset, idx, evalLog, scan>>

\* lines 108-110 and 127-129 for index record i: the inner loop
WorkerScore ==
    /\ pc = "workers"
    /\ \E i \in DOMAIN workers.phase :
        /\ workers.phase[i] = "idle"
        /\ \E inner \in {ScoreAll(args, ruleset, name_to_comparator, i, 1, NoScores)} :
            /\ workers' = [workers EXCEPT !.phase[i] = "scored", !.inner[i] = inner]
            /\ pc' = IF inner.raised # "" THEN "raised" ELSE "workers"
    /\ UNCHANGED <<regVars, rulesInput, ruleset, args, idx, result, evalLog, scan>>

\* lines 112-120 and 130-137 for index record i: its matches or its unmatched id
WorkerStore ==
    /\ pc = "workers"
    /\ \E i \in DOMAIN workers.phase :
        /\ workers.phase[i] = "scored"
        /\ result' = Scored(result, args, IndexId(args, i), workers.inner[i]).result
        /\ workers' = [workers EXCEPT !.phase[i] = "stored", !.order = Append(@, i)]
    /\ UNCHANGED <<regVars, rulesInput, ruleset, args, pc, idx, evalLog, scan>>

\* lines 122-123 and 138-141, once every worker has stored
WorkersFinish ==
    /\ pc = "workers"
    /\ \A i \in DOMAIN workers.phase : workers.phase[i] = "stored"
    /\ result' = FinishMatch(result, args)
    /\ pc' = "done"
    /\ UNCHANGED <<regVars, workers, rulesInput, ruleset, args, idx, evalLog, scan>>

NextWorkers == ConstructRuleSet \/ WorkersBegin \/ WorkerScore \/ WorkerStore \/ WorkersFinish

SpecWorkers == Init /\ [][NextWorkers]_vars

(***************************************************************************)
(* The comparators: default_registry.evaluate(name, left, right, params)   *)
(***************************************************************************)
\* values of a record field: null or missing, numbers, a numeric and another str
CmpValues == {PyNone, PyInt(0), PyInt(1), PyInt(3), PyStr("2"), PyStr("x")}
\* parameter mappings: none, and max_distance negative, zero and positive
CmpParams ==
    {NoParams} \cup {MaxDistance(d) : d \in {Rat(-2, 1), Zero, Half, Rat(2, 1)}}
CmpNames == {ExactName, NumericDistanceName}

InitComparators ==
    /\ name_to_comparator = DefaultRegistry
    /\ name_to_description = EmptyDict
    /\ regLog = <<>>
    /\ regOutcome = [op |-> "", name |-> <<>>, raised |-> "", func |-> ""]
    /\ call = NoCall
    /\ rulesInput = <<>>
    /\ ruleset = <<>>
    /\ args = NoArgs
    /\ pc = "comparators"
    /\ idx = 0
    /\ result = NewResult("one_to_many")
    /\ evalLog = <<>>
    /\ scan = NoScan
    /\ workers = NoWorkers

\* registry.evaluate: the comparator of that name, called with the two values
Evaluate ==
    /\ pc = "comparators"
    /\ \E name \in CmpNames, left \in CmpValues, right \in CmpValues, params \in CmpParams :
        \E out \in {Apply(Get(name_to_comparator, name).func, left, right, params)} :
            call' = [op |-> "evaluate", name |-> name, left |-> left, right |-> right,
                     params |-> params, raised |-> out.raised, score |-> out.score]
    /\ UNCHANGED <<name_to_comparator, name_to_description, regLog, regOutcome, engineVars>>

NextComparators == Evaluate

SpecComparators == InitComparators /\ [][NextComparators]_vars

(***************************************************************************)
(* Properties of the engine                                                *)
(***************************************************************************)
Returned == pc = "done"
LeftPos == 1..Len(args.left_records)
RightPos == 1..Len(args.right_records)
LeftId(i) == IdOf(args.left_records[i], args.left_id_field)
RightId(j) == IdOf(args.right_records[j], args.right_id_field)

\* what the rule scan returns for the pair (left i, right j)
PairOutcome(i, j) ==
    EvaluateRulesForPair(args.left_records[i], args.right_records[j], ruleset,
                         name_to_comparator).ps

\* the matched PairScores of index record i, as a set
MatchedOf(i) ==
    IF args.cardinality = "one_to_many"
    THEN {PairOutcome(i, j) : j \in {j \in RightPos : PairOutcome(i, j).matched}}
    ELSE {PairOutcome(j, i) : j \in {j \in LeftPos : PairOutcome(j, i).matched}}

Elems(seq) == {seq[n] : n \in DOMAIN seq}

DistinctLeftIds == \A i, j \in LeftPos : i # j => LeftId(i) # LeftId(j)
DistinctRightIds == \A i, j \in RightPos : i # j => RightId(i) # RightId(j)

InBoth(id) == id \in DOMAIN result.matches_index /\ IsIn(result.unmatched_left_ids, id)
InNeither(id) == id \notin DOMAIN result.matches_index /\ ~IsIn(result.unmatched_left_ids, id)

\* C1 as stated: under one_to_many every left identifier is in exactly one of
\* matches_index and unmatched_left_ids, for every input.
C1_ExactlyOne ==
    (Returned /\ args.cardinality = "one_to_many") =>
        \A i \in LeftPos : ~InBoth(LeftId(i)) /\ ~InNeither(LeftId(i))

\* C1, amended: under one_to_many every left identifier is in at least one of
\* matches_index and unmatched_left_ids, and in exactly one of them when the
\* left identifiers are pairwise distinct.
C1_ExactlyOneWhenDistinct ==
    (Returned /\ args.cardinality = "one_to_many") =>
        /\ \A i \in LeftPos : ~InNeither(LeftId(i))
        /\ DistinctLeftIds => \A i \in LeftPos : ~InBoth(LeftId(i))

C1_Witness ==
    /\ Returned /\ args.cardinality = "one_to_many" /\ DistinctLeftIds
    /\ \E i, j \in LeftPos :
        /\ LeftId(i) \in DOMAIN result.matches_index
        /\ IsIn(result.unmatched_left_ids, LeftId(j))

\* the PairScore of the pair (left i, right j) is stored under its index record
Stored(i, j) ==
    IF args.cardinality = "one_to_many"
    THEN LeftId(i) \in DOMAIN result.matches_index
         /\ IsIn(result.matches_index[LeftId(i)], PairOutcome(i, j))
    ELSE RightId(j) \in DOMAIN result.matches_index
         /\ IsIn(result.matches_index[RightId(j)], PairOutcome(i, j))

\* C2: after the run an identifier of the other side is in that side's unmatched
\* list iff its record is the counterpart of no stored PairScore.
C2_UnmatchedIffNoCounterpart ==
    Returned =>
        IF args.cardinality = "one_to_many"
        THEN \A j \in RightPos :
                IsIn(result.unmatched_right_ids, RightId(j)) <=> ~\E i \in LeftPos : Stored(i, j)
        ELSE \A i \in LeftPos :
                IsIn(result.unmatched_left_ids, LeftId(i)) <=> ~\E j \in RightPos : Stored(i, j)

IndexPos == IF args.cardinality = "one_to_many" THEN LeftPos ELSE RightPos

\* kept is in the order total_score descending, ties by rule_name ascending
Ordered(kept) ==
    \A m, n \in DOMAIN kept : m < n =>
        /\ ~RatLess(kept[m].total_score, kept[n].total_score)
        /\ kept[m].total_score = kept[n].total_score
               => ~StrLess(kept[n].rule_name, kept[m].rule_name)

\* kept holds matched pairs of index record i, in order, and no pair of i that
\* is left out scores strictly higher than one that is kept
BestOf(kept, i) ==
    /\ Elems(kept) \subseteq MatchedOf(i)
    /\ Ordered(kept)
    /\ \A d \in MatchedOf(i) \ Elems(kept) : \A k \in Elems(kept) :
           ~RatLess(k.total_score, d.total_score)

Scanning == pc \in {"rules", "returned"}
PairLeft == args.left_records[1]
PairRight == args.right_records[1]

\* the registry.evaluate calls made, as <<rule position, binding position>>
CallsMade == [n \in DOMAIN evalLog |-> <<evalLog[n].rule, evalLog[n].field>>]

\* every binding of the rules 1..k, rule by rule
RECURSIVE AllCallsUpTo(_)
AllCallsUpTo(k) ==
    IF k = 0 THEN <<>>
    ELSE AllCallsUpTo(k - 1) \o [i \in 1..Len(ruleset[k].fields) |-> <<k, i>>]

FlipFlags(rules) ==
    [k \in 1..Len(rules) |->
        [rules[k] EXCEPT !.stop_on_first_rule_match = ~rules[k].stop_on_first_rule_match]]

\* ps is a PairScore of the highest total_score among the unmatched ones scored
IsBest(ps) ==
    /\ \E n \in DOMAIN scan.scored : scan.scored[n] = ps
    /\ \A n \in DOMAIN scan.scored : ~RatLess(ps.total_score, scan.scored[n].total_score)

BindingScore(k, n) ==
    Apply(Get(name_to_comparator, ruleset[k].fields[n].comparator).func,
          DictGet(PairLeft, ruleset[k].fields[n].left_field),
          DictGet(PairRight, ruleset[k].fields[n].right_field),
          ruleset[k].fields[n].params).score

RECURSIVE WeightedSum(_, _)
WeightedSum(k, n) ==
    IF n = 0 THEN Zero
    ELSE RatAdd(WeightedSum(k, n - 1), RatMul(BindingScore(k, n), ruleset[k].fields[n].weight))

RECURSIVE WeightSum(_, _)
WeightSum(k, n) ==
    IF n = 0 THEN Zero ELSE RatAdd(WeightSum(k, n - 1), ruleset[k].fields[n].weight)

\* every must binding of rule k has score >= its threshold, 0.0 when it has none
MustPass(k) ==
    \A n \in 1..Len(ruleset[k].fields) :
        ruleset[k].fields[n].must =>
            ~RatLess(BindingScore(k, n),
                     IF ruleset[k].fields[n].has_threshold
                     THEN ruleset[k].fields[n].threshold ELSE Zero)

\* sum(score * weight) / sum(weight)
Mean(k) ==
    RatDiv(WeightedSum(k, Len(ruleset[k].fields)), WeightSum(k, Len(ruleset[k].fields)))

AggregatePasses(k) == ~RatLess(Mean(k), ruleset[k].match_threshold)

\* C5: a PairScore is matched iff every must binding reaches its threshold (0.0
\* when it has none) and the weighted mean of the scores reaches the rule's
\* match_threshold; for a rule of one binding that is not must, iff the score of
\* the binding reaches match_threshold.
C5_MatchedIff ==
    Scanning => \A k \in DOMAIN scan.scored :
        /\ scan.scored[k].matched <=> (MustPass(k) /\ AggregatePasses(k))
        /\ scan.scored[k].total_score = Mean(k)
        /\ (Len(ruleset[k].fields) = 1 /\ ~ruleset[k].fields[1].must) =>
               (scan.scored[k].matched
                    <=> ~RatLess(BindingScore(k, 1), ruleset[k].match_threshold))

\* a must binding below its threshold keeps the pair unmatched although the mean
\* reaches match_threshold
C5_Witness ==
    /\ Scanning
    /\ \E k \in DOMAIN scan.scored :
        ~MustPass(k) /\ AggregatePasses(k) /\ ~scan.scored[k].matched

(***************************************************************************)
(* Properties of the engine, continued                                     *)
(***************************************************************************)
Registered(rule) ==
    \A n \in 1..Len(rule.fields) : Get(name_to_comparator, rule.fields[n].comparator).raised = ""

\* C6: when a rule of the RuleSet names a comparator that is not registered, the
\* match call fails with KeyError and returns no EngineResult.
C6_UnregisteredFailsCall ==
    (\E k \in 1..Len(ruleset) : ~Registered(ruleset[k])) => ~Returned

\* C7: when some pair is matched under the rule set, neither its left identifier
\* nor its right identifier is listed as unmatched.
C7_UnmatchedHaveNoMatch ==
    Returned => \A i \in LeftPos : \A j \in RightPos :
        PairOutcome(i, j).matched =>
            /\ ~IsIn(result.unmatched_left_ids, LeftId(i))
            /\ ~IsIn(result.unmatched_right_ids, RightId(j))

OtherCardinality == IF args.cardinality = "one_to_many" THEN "many_to_one" ELSE "one_to_many"

\* the same call with the other cardinality
OtherRun ==
    Match([args EXCEPT !.cardinality = OtherCardinality], ruleset, name_to_comparator).result

OneToMany == IF args.cardinality = "one_to_many" THEN result ELSE OtherRun
ManyToOne == IF args.cardinality = "many_to_one" THEN result ELSE OtherRun

\* what is stored under key for the pair of identifiers (l, r)
StoredFor(mi, key, l, r) ==
    IF key \notin DOMAIN mi THEN {}
    ELSE {[rule_name |-> s.rule_name, total_score |-> s.total_score, matched |-> s.matched] :
             s \in {s \in Elems(mi[key]) : s.left_id = l /\ s.right_id = r}}

\* left i is the only left record that matches right j
OnlyMatchOf(i, j) == \A m \in LeftPos : PairOutcome(m, j).matched => m = i

\* C8: with unique identifiers, a pair (L, R) is stored under L by one_to_many iff
\* it is stored under R by many_to_one, with the same rule_name and total_score
\* and matched (top_k unset); and with top_k = 1, when the best match of L is R
\* and no other left record matches R, many_to_one has matches_index[R][0].left_id = L.
C8_Symmetric ==
    (Returned /\ DistinctLeftIds /\ DistinctRightIds) =>
        /\ args.top_k = PyNone => \A i \in LeftPos : \A j \in RightPos :
            /\ StoredFor(OneToMany.matches_index, LeftId(i), LeftId(i), RightId(j))
                   = StoredFor(ManyToOne.matches_index, RightId(j), LeftId(i), RightId(j))
            /\ \A s \in StoredFor(OneToMany.matches_index, LeftId(i), LeftId(i), RightId(j)) :
                   s.matched
        /\ args.top_k = PyInt(1) => \A i \in LeftPos : \A j \in RightPos :
            ( /\ LeftId(i) \in DOMAIN OneToMany.matches_index
              /\ OneToMany.matches_index[LeftId(i)][1].right_id = RightId(j)
              /\ OnlyMatchOf(i, j) )
            => /\ RightId(j) \in DOMAIN ManyToOne.matches_index
               /\ ManyToOne.matches_index[RightId(j)][1].left_id = LeftId(i)

\* C7, the route through top_k alone: identifiers present under "id", top_k = 1,
\* and the right record of a matched pair is listed as unmatched
C7_Truncated ==
    /\ Returned /\ args.left_id_field = "id" /\ args.top_k = PyInt(1)
    /\ \E i \in LeftPos : \E j \in RightPos :
        /\ "id" \in DOMAIN args.left_records[i] /\ "id" \in DOMAIN args.right_records[j]
        /\ PairOutcome(i, j).matched
        /\ IsIn(result.unmatched_right_ids, RightId(j))

\* the rules of the given (priority, name) order: a before b
RuleBefore(a, b) ==
    \/ a.priority < b.priority
    \/ a.priority = b.priority /\ StrLess(a.name, b.name)

PositionIn(seq, x) == CHOOSE i \in DOMAIN seq : seq[i] = x

\* C10: RuleSet keeps the given rules in (priority, name) ascending order, rules
\* of equal priority and name in insertion order; the engine scores the rules of
\* every pair in this order; an empty rule list is rejected.
C10_RuleOrder ==
    pc # "new" =>
        /\ pc = "rejected" <=> rulesInput = <<>>
        /\ pc # "rejected" =>
            /\ Len(ruleset) = Len(rulesInput) /\ Elems(ruleset) = Elems(rulesInput)
            /\ \A m, n \in DOMAIN ruleset : m < n =>
                /\ ~RuleBefore(ruleset[n], ruleset[m])
                /\ ~RuleBefore(ruleset[m], ruleset[n]) =>
                       PositionIn(rulesInput, ruleset[m]) < PositionIn(rulesInput, ruleset[n])
            /\ \A m, n \in DOMAIN evalLog :
                (m < n /\ evalLog[m].left = evalLog[n].left /\ evalLog[m].right = evalLog[n].right)
                => /\ evalLog[m].rule <= evalLog[n].rule
                   /\ ~RuleBefore(ruleset[evalLog[n].rule], ruleset[evalLog[m].rule])
            /\ \A n \in DOMAIN evalLog :
                \A k \in 1..evalLog[n].rule : \E m \in 1..n :
                    /\ evalLog[m].rule = k
                    /\ evalLog[m].left = evalLog[n].left /\ evalLog[m].right = evalLog[n].right

C10_Witness ==
    /\ Returned /\ Len(ruleset) = 2
    /\ ruleset[1] = rulesInput[2]
    /\ RuleBefore(ruleset[1], ruleset[2])
    /\ \E n \in DOMAIN evalLog : evalLog[n].rule = 2

(***************************************************************************)
(* Properties of the registry                                              *)
(***************************************************************************)
\* the name without its leading and trailing whitespace, in lower case
Canonical(name) ==
    LET inked == {i \in DOMAIN name : name[i] \notin Whitespace}
        first == CHOOSE i \in inked : \A j \in inked : i <= j
        last == CHOOSE i \in inked : \A j \in inked : j <= i
    IN  IF inked = {} THEN <<>>
        ELSE [i \in 1..(last - first + 1) |-> LowerChar(name[first + i - 1])]

\* the register calls that returned and whose name is the lookup name, normalised
Registrations(name) ==
    {i \in DOMAIN regLog :
        regLog[i].raised = "" /\ Canonical(regLog[i].name) = Canonical(name)}

LastRegistration(name) ==
    CHOOSE i \in Registrations(name) : \A j \in Registrations(name) : j <= i

\* what get(name) has to answer after the register calls of regLog
Expected(name) ==
    IF Registrations(name) = {} THEN [raised |-> "KeyError", func |-> ""]
    ELSE [raised |-> "", func |-> regLog[LastRegistration(name)].func]

GetAgrees ==
    /\ \A name \in RegistryNames : Get(name_to_comparator, name) = Expected(name)
    /\ regOutcome.op = "get" =>
        /\ regOutcome.raised = Expected(regOutcome.name).raised
        /\ regOutcome.func = Expected(regOutcome.name).func
    /\ \A i \in DOMAIN regLog : regLog[i].raised = "ValueError" <=> Canonical(regLog[i].name) = <<>>
    /\ \A i \in DOMAIN regLog : regLog[i].raised \in {"", "ValueError"}

RejectedRegisterKeeps ==
    (Len(regLog') = Len(regLog) + 1 /\ regLog'[Len(regLog')].raised # "")
        => /\ name_to_comparator' = name_to_comparator
           /\ name_to_description' = name_to_description
           /\ Names(name_to_comparator') = Names(name_to_comparator)

\* C9: get(name) answers with the function of the latest register call that
\* returned and has the same trimmed, lower-cased name, and raises KeyError iff
\* there is none; a register call whose normalised name is empty raises
\* ValueError and leaves the functions, the descriptions and names() as they were.
C9_RegistryLookup == []GetAgrees /\ [][RejectedRegisterKeeps]_vars

C9_Witness ==
    /\ regOutcome.op = "get" /\ regOutcome.raised = ""
    /\ Len(regLog) = 2
    /\ regLog[1].raised = "" /\ regLog[2].raised = ""
    /\ regLog[1].name # regLog[2].name /\ regLog[1].func # regLog[2].func
    /\ regLog[2].name # regOutcome.name
    /\ Canonical(regLog[1].name) = Canonical(regOutcome.name)
    /\ regOutcome.func = regLog[2].func

(***************************************************************************)
(* Properties of the comparators                                           *)
(***************************************************************************)
\* the value is a number, or a str that float() parses
IsNumeric(v) == v.t = "int" \/ (v.t = "str" /\ \E n \in 0..9 : Str(PyInt(n)) = v.s)
NumberOf(v) == IF v.t = "int" THEN v.n ELSE CHOOSE n \in 0..9 : Str(PyInt(n)) = v.s

\* the value is null or missing, or the comparator cannot parse it
Unusable(name, v) == v = PyNone \/ (name = NumericDistanceName /\ ~IsNumeric(v))

\* max(0, 1 - |left - right| / max_distance)
ScaledDistance(left, right, max_distance) ==
    RatMax(Zero, RatSub(One, RatDiv(Rat(Abs(NumberOf(left) - NumberOf(right)), 1),
                                    max_distance)))

\* C11: a built-in comparator never raises, its score lies in [0, 1] and is 0.0
\* when a value is null, missing or unparseable, for every parameter mapping;
\* numeric_distance gives max(0, 1 - |left - right| / max_distance) on numbers.
C11_ScoreInUnitInterval ==
    call.op = "evaluate" =>
        /\ call.raised = ""
        /\ ~RatLess(call.score, Zero) /\ ~RatLess(One, call.score)
        /\ (Unusable(call.name, call.left) \/ Unusable(call.name, call.right))
               => call.score = Zero
        /\ (call.name = NumericDistanceName /\ IsNumeric(call.left) /\ IsNumeric(call.right))
               => call.score = ScaledDistance(call.left, call.right,
                                              DictGetDefault(call.params, "max_distance", One))

(***************************************************************************)
(* Properties of the workers                                               *)
(***************************************************************************)
\* the sequential run of the same call
Sequential == Match(args, ruleset, name_to_comparator)

DistinctIndexIds ==
    IF args.cardinality = "one_to_many" THEN DistinctLeftIds ELSE DistinctRightIds

\* the workers' result is that of the run seq: the same mapping, the same sets
SameAs(seq) ==
    /\ seq.raised = ""
    /\ result.matches_index = seq.result.matches_index
    /\ Elems(result.unmatched_left_ids) = Elems(seq.result.unmatched_left_ids)
    /\ Elems(result.unmatched_right_ids) = Elems(seq.result.unmatched_right_ids)

SameAsSequential == SameAs(Sequential)

\* C12 as stated: whatever the order in which the workers score and store, with
\* the other side's unmatched ids computed after all of them, the result has the
\* matches_index and the unmatched sets of the sequential run.
C12_OrderIndependent ==
    /\ Returned => SameAsSequential
    /\ pc = "raised" => Sequential.raised # ""

\* C12, amended: the same, when the identifiers of the index-side records are
\* pairwise distinct.
C12_OrderIndependentWhenDistinct ==
    /\ (Returned /\ DistinctIndexIds) => SameAsSequential
    /\ pc = "raised" => Sequential.raised # ""

\* the workers stored in another order than the sequential loop, one of them a
\* match list and one an unmatched id
C12_Witness ==
    /\ Returned /\ DistinctIndexIds
    /\ Len(workers.order) >= 2
    /\ \E m, n \in DOMAIN workers.order : m < n /\ workers.order[m] > workers.order[n]
    /\ DOMAIN result.matches_index # {}
    /\ \E i \in DOMAIN workers.phase :
        IsIn(IF args.cardinality = "one_to_many" THEN result.unmatched_left_ids
             ELSE result.unmatched_right_ids, IndexId(args, i))

====
